---- MODULE Spec2Model ----
(***************************************************************************)
(* SecretManager backend: the sqlite store behind DatabaseManager          *)
(* (src/backend/db_manager.py), the Flask handlers over it                 *)
(* (src/backend/blueprints/api.py, api_master_password.py) and the field   *)
(* cipher and password hash (src/backend/crypts/tools.py).                 *)
(*                                                                         *)
(* The Flask development server answers each request on its own thread;    *)
(* all threads share the one DatabaseManager, its one sqlite connection    *)
(* and its one cursor.  A step of the model is one statement on the shared *)
(* connection (cursor.execute, fetchall, fetchone, commit) or one file     *)
(* operation; everything a thread does between two such statements touches *)
(* only its own locals and is folded into the step.                        *)
(*                                                                         *)
(*   Spec     threads call the DatabaseManager methods directly            *)
(*   SpecApi  threads send HTTP requests to the blueprints' handlers       *)
(***************************************************************************)
EXTENDS Integers, Sequences, FiniteSets, TLC

VARIABLES
    secrets,    \* table secret_general as the connection sees it: set of [id, name]
    fields,     \* table secret_fields as the connection sees it: sequence (rowid order) of [label, value, secret_id]
    nextId,     \* last AUTOINCREMENT id handed out for secret_general (sqlite_sequence)
    inTx,       \* the connection has an open (implicit) transaction
    disk,       \* the committed tables: [secrets, fields]
    cursor,     \* rows still to be fetched from the shared self.cursor
    pc,         \* per thread: the statement it runs next
    loc,        \* per thread: arguments, locals and the result of its current call
    nops,       \* calls started so far, by all threads
    born,       \* ghost: id of a secret_general row |-> number of fields its create_secret was given
    masterFile, \* data/master_password.txt: absent or its content
    inputTxt,   \* input.txt of hash_password: absent or its content
    outputTxt,  \* output.txt of hash_password: absent or its content
    won,        \* ghost: the passwords of the set_master_password calls answered 201, in order
    urandoms,   \* calls of os.urandom so far in this execution
    singleton,  \* SingletonMeta._lock and ._instances, with counts of what ran for DatabaseManager
    dbFiles     \* the database files: name |-> what the file holds, if there is one

vars == <<secrets, fields, nextId, inTx, disk, cursor, pc, loc, nops, born,
          masterFile, inputTxt, outputTxt, won, urandoms, singleton, dbFiles>>

storeVars == <<secrets, fields, nextId, inTx, disk, cursor, born>>
fileVars == <<masterFile, inputTxt, outputTxt, won>>
bootVars == <<singleton, dbFiles>>
procVars == <<urandoms, bootVars>>

(***************************************************************************)
(* Bounds of the model.                                                    *)
(***************************************************************************)
Threads == {"t1", "t2"}
\* calls (or requests) the threads make in all
MaxOps == 3

(***************************************************************************)
(* Values.                                                                 *)
(***************************************************************************)
\* every text of the model is a sequence of characters; Python's None (SQL
\* NULL) is a value apart from all of them
None == <<"None">>

\* a file is <<>> when it does not exist and <<content>> when it does; a
\* content is empty, a text (a sequence of characters) or a printed hash
NoFile == <<>>
File(content) == <<content>>
Empty == [k |-> "empty", v |-> <<>>]
Text(s) == IF s = <<>> THEN Empty ELSE [k |-> "text", v |-> s]

Names == {<<"a">>, <<"A", "b">>}

\* column 0 of a fetched row is an integer id or a text label
IntKey(n) == [t |-> "int", v |-> n]
TextKey(s) == [t |-> "text", v |-> s]
KeyEq(a, b) == a.t = b.t /\ a.v = b.v

SecretRow(id, name) == [kind |-> "secret", c0 |-> IntKey(id), c1 |-> name]
FieldRow(label, value) == [kind |-> "field", c0 |-> TextKey(label), c1 |-> value]

(***************************************************************************)
(* Field cipher (crypts/tools.py).  A byte string is a sequence of bytes;   *)
(* a byte is [b, sym]: b its value and sym empty, or, for the bytes Fernet  *)
(* makes, b = -1 and sym the one thing the bytes stand for.  PBKDF2 and     *)
(* Fernet are modelled by what they guarantee: the derived key is a         *)
(* function of (password bytes, salt) and of nothing else, and a token      *)
(* opens under the key that made it and under no other.  Fernet's version   *)
(* byte, timestamp and IV are left out of the token.                        *)
(***************************************************************************)
SALT_SIZE == 16

Byte(n) == [b |-> n, sym |-> <<>>]
Sym(part, key, msg) == [b |-> -1, sym |-> <<[part |-> part, key |-> key, msg |-> msg]>>]

\* the characters of the model's texts; "e-acute" is U+00E9
Alphabet == {"a", "A", "b", "k", "p", "q", "u", "v", "w", "x", "_", "1", "\n", "e-acute"}

\* the UTF-8 bytes of a character
Utf8(c) ==
    CASE c = "a" -> <<97>> [] c = "A" -> <<65>> [] c = "b" -> <<98>> [] c = "k" -> <<107>>
      [] c = "p" -> <<112>> [] c = "q" -> <<113>> [] c = "u" -> <<117>> [] c = "v" -> <<118>>
      [] c = "w" -> <<119>> [] c = "x" -> <<120>> [] c = "_" -> <<95>> [] c = "1" -> <<49>>
      [] c = "\n" -> <<10>> [] c = "e-acute" -> <<195, 169>>

\* str.encode('utf-8')
RECURSIVE encode(_)
encode(text) == IF text = <<>> THEN <<>> ELSE Utf8(Head(text)) \o encode(Tail(text))

IsPrefix(p, s) == Len(p) <= Len(s) /\ SubSeq(s, 1, Len(p)) = p

\* bytes.decode('ascii'): a decoder that gives up on every byte above 127
RECURSIVE decode_ascii(_)
decode_ascii(bs) ==
    IF bs = <<>> THEN [ok |-> TRUE, text |-> <<>>]
    ELSE IF \E c \in Alphabet : Utf8(c) = <<Head(bs)>>
         THEN LET c == CHOOSE x \in Alphabet : Utf8(x) = <<Head(bs)>>
                  rest == decode_ascii(Tail(bs))
              IN [ok |-> rest.ok, text |-> IF rest.ok THEN <<c>> \o rest.text ELSE <<>>]
         ELSE [ok |-> FALSE, text |-> <<>>]

\* bytes.decode('utf-8'): the text, or UnicodeDecodeError
RECURSIVE decode(_)
decode(bs) ==
    IF bs = <<>> THEN [ok |-> TRUE, text |-> <<>>]
    ELSE IF \E c \in Alphabet : IsPrefix(Utf8(c), bs)
         THEN LET c == CHOOSE x \in Alphabet : IsPrefix(Utf8(x), bs)
                  rest == decode(SubSeq(bs, Len(Utf8(c)) + 1, Len(bs)))
              IN [ok |-> rest.ok, text |-> IF rest.ok THEN <<c>> \o rest.text ELSE <<>>]
         ELSE [ok |-> FALSE, text |-> <<>>]

\* a salt that is the same at every call
fixed_salt(n) == [i \in 1..SALT_SIZE |-> Byte(0)]

\* os.urandom(SALT_SIZE) at the n-th call of this execution.  The generator is
\* taken to hand out no 16 bytes twice (two calls agree with probability
\* 2^-128), so the n-th result stands for the n-th fresh value
urandom(n) == [i \in 1..SALT_SIZE |-> Byte(n)]

\* a key derivation that leaves the password out
key_of_salt_alone(password, salt) == [pw |-> <<>>, salt |-> salt]

\* 13-26: PBKDF2-HMAC-SHA256 of password.encode('utf-8') under the salt
_derive_fernet_key(password, salt) == [pw |-> encode(password), salt |-> salt]

\* Fernet(key).encrypt(data): the ciphertext and its HMAC
FernetEncrypt(key, msg) == <<Sym("ct", key, msg), Sym("mac", key, msg)>>

\* the bytes of the plaintext itself, no salt and no token
plaintext_bytes(password, plaintext, salt) ==
    [i \in 1..Len(encode(plaintext)) |-> Byte(encode(plaintext)[i])]

\* 29-38; salt is what os.urandom(SALT_SIZE) returned
encrypt_string(password, plaintext, salt) ==
    salt \o FernetEncrypt(_derive_fernet_key(password, salt), encode(plaintext))

\* Fernet(key).decrypt(token): the message when the HMAC is the key's HMAC of
\* the ciphertext, InvalidToken for every other token
FernetDecrypt(key, token) ==
    IF /\ Len(token) = 2
       /\ token[1].sym # <<>> /\ token[2].sym # <<>>
       /\ token[1].sym[1].part = "ct" /\ token[2].sym[1].part = "mac"
       /\ token[1].sym[1].key = key /\ token[2].sym[1].key = key
       /\ token[1].sym[1].msg = token[2].sym[1].msg
    THEN [ok |-> TRUE, msg |-> token[1].sym[1].msg]
    ELSE [ok |-> FALSE, msg |-> <<>>]

\* what decrypt_string returns (text) or raises (exc)
Plain(text) == [ok |-> TRUE, text |-> text, exc |-> ""]
Fails(exc) == [ok |-> FALSE, text |-> <<>>, exc |-> exc]

\* 41-57
decrypt_string(password, blob) ==
    IF Len(blob) < SALT_SIZE THEN Fails("ValueError")
    ELSE LET salt == SubSeq(blob, 1, SALT_SIZE)
             token == SubSeq(blob, SALT_SIZE + 1, Len(blob))
             key == _derive_fernet_key(password, salt)
             d == FernetDecrypt(key, token)
         IN IF ~d.ok THEN Fails("InvalidToken")
            ELSE IF ~decode(d.msg).ok THEN Fails("UnicodeDecodeError")
            ELSE Plain(decode(d.msg).text)

(***************************************************************************)
(* The sqlite statements of db_manager.py, as functions of the tables.     *)
(***************************************************************************)
\* sqlite3.connect() leaves PRAGMA foreign_keys at its default, OFF, and
\* _connect never turns it on: REFERENCES ... ON DELETE CASCADE is not enforced.
ForeignKeysOn == FALSE

\* the UNIQUE constraint on secret_general.name
NameTaken(name) == \E r \in secrets : r.name = name

\* id of the row named `name`, 0 when there is none
IdOfName(name) == IF NameTaken(name) THEN (CHOOSE r \in secrets : r.name = name).id ELSE 0

\* ASCII case folding of LIKE
Lower(c) == CASE c = "A" -> "a" [] c = "B" -> "b" [] OTHER -> c

\* sqlite's LIKE: % matches any run of characters, _ any one character,
\* letters match without regard to case
RECURSIVE Like(_, _)
Like(p, s) ==
    IF p = <<>> THEN s = <<>>
    ELSE IF Head(p) = "%"
         THEN Like(Tail(p), s) \/ (s # <<>> /\ Like(p, Tail(s)))
         ELSE /\ s # <<>>
              /\ (Head(p) = "_" \/ Lower(Head(p)) = Lower(Head(s)))
              /\ Like(Tail(p), Tail(s))

\* rows of secret_general in rowid order
RECURSIVE RowsOf(_)
RowsOf(S) ==
    IF S = {} THEN <<>>
    ELSE LET r == CHOOSE x \in S : \A y \in S : x.id <= y.id
         IN <<SecretRow(r.id, r.name)>> \o RowsOf(S \ {r})

\* SELECT id, name FROM secret_general WHERE id = ?
SelectById(key) == RowsOf({r \in secrets : KeyEq(IntKey(r.id), key)})

\* SELECT id, name FROM secret_general WHERE name = ?
SelectByName(name) == RowsOf({r \in secrets : r.name = name})

\* SELECT id, name FROM secret_general WHERE name LIKE ?
SelectLike(template) == RowsOf({r \in secrets : Like(template, r.name)})

\* SELECT label, value FROM secret_fields WHERE secret_id = ?
SelectFields(key) ==
    LET hit == SelectSeq(fields, LAMBDA f : KeyEq(f.secret_id, key))
    IN [i \in 1..Len(hit) |-> FieldRow(hit[i].label, hit[i].value)]

\* DELETE FROM secret_general WHERE id = ?: the rows of secret_fields left
FieldsAfterDelete(key) ==
    IF ForeignKeysOn
    THEN SelectSeq(fields, LAMBDA f : ~KeyEq(f.secret_id, key))
    ELSE fields

(***************************************************************************)
(* Threads.                                                                *)
(***************************************************************************)
\* what a call returned (kind, and the rows for a row or a list of rows) or
\* the exception it raised
Ret(kind, rows, exc) == [kind |-> kind, rows |-> rows, exc |-> exc]
NoRet == Ret("none", <<>>, "")
RetNone == Ret("None", <<>>, "")
RetTrue == Ret("True", <<>>, "")
RetFalse == Ret("False", <<>>, "")
RetRow(r) == Ret("row", <<r>>, "")
RetRows(rs) == Ret("rows", rs, "")
Raise(e) == Ret("raise", <<>>, e)

NoReq == [route |-> "none"]

InitLoc ==
    [handler |-> "none",  \* the Flask handler the call was made from, "none" for a direct call
     req |-> NoReq,       \* the request's JSON (or query arguments)
     status |-> 0,        \* the HTTP status answered
     body |-> <<>>,       \* the JSON body answered
     op |-> "none",       \* the DatabaseManager method running (or last run)
     name |-> <<>>, data |-> <<>>, key |-> IntKey(0), sub |-> <<>>,   \* its arguments
     secret |-> <<>>,     \* its local `secret`: <<>> for None, <<row>> for a row
     i |-> 0,             \* position in `for secret_fields in data`
     rowid |-> 0,         \* ghost: id of the secret_general row its INSERT made
     existed |-> 0,       \* ghost: id of the row that held `name` (or the id asked for) when the method's SELECT ran, 0 if none
     hash |-> Empty,      \* hash_password's local `hash`
     verified |-> "none", \* ghost: what compare_hash_password makes of the request's password as the request comes in
     late |-> FALSE,      \* ghost: a set_master_password call had been answered 201 when the request came in
     damaged |-> FALSE,   \* ghost: a stored field of the secret asked for fails decrypt_string under the request's password as the request comes in
     pw |-> <<>>, plain |-> <<>>,   \* the arguments encrypt_string was called with
     blob |-> <<>>,       \* the blob it returned, as it is now
     altered |-> "no",    \* ghost: what was done to the blob since: "no", "token" (its token part altered), "short" (cut below SALT_SIZE)
     pw2 |-> <<>>,        \* the password decrypt_string was called with
     out |-> Fails(""),   \* what decrypt_string returned or raised
     db |-> "",           \* the db_name DatabaseManager(...) was called with
     inst |-> 0,          \* the instance super().__call__ made for it, then the one it returned
     flag |-> FALSE,      \* _connect's local `flag`
     first |-> 0,         \* the status the client was answered by /delete_secret, 0 when that request raised RequestException
     client |-> "none",   \* what Connector.delete_secret returned or raised
     ret |-> NoRet]       \* what it returned or raised

Idle(t) == pc[t] = "idle" /\ nops < MaxOps

Goto(t, p, l) ==
    /\ pc' = [pc EXCEPT ![t] = p]
    /\ loc' = [loc EXCEPT ![t] = l]

(***************************************************************************)
(* What a Flask handler does with the value a DatabaseManager method       *)
(* returned (api.py), up to its next statement on the store.  An exception *)
(* no handler catches is answered by Flask with status 500.                *)
(***************************************************************************)
Answer(l, status, body) == [l EXCEPT !.status = status, !.body = body]

\* api.py 26-32: find_by_name after get_secrets_by_substring
FindByNameBody(rows) == [i \in 1..Len(rows) |-> [name |-> rows[i].c1, id |-> rows[i].c0]]

\* api.py 88-93: the loop of get_secret subscripts the fetched tuple with
\* 'label' (and the list `fields` with 'value'): TypeError on the first row
GetSecretLoop(rows) == IF rows = <<>> THEN [status |-> 200] ELSE [status |-> 500]

Return(t, l, r) ==
    LET m == [l EXCEPT !.ret = r] IN
    IF r.kind = "raise" /\ l.handler # "none" THEN Goto(t, "idle", Answer(m, 500, <<>>))
    ELSE CASE l.handler = "none" -> Goto(t, "idle", m)
           [] l.handler = "find_by_name" ->
                Goto(t, "idle", IF r.kind = "None" THEN Answer(m, 200, <<>>)
                                ELSE Answer(m, 200, FindByNameBody(r.rows)))
           [] l.handler = "create_secret" ->
                Goto(t, "idle", Answer(m, IF r.kind = "True" THEN 201 ELSE 400, <<>>))
           [] l.handler = "get_secret" ->
                Goto(t, "idle", IF r.kind = "None" THEN Answer(m, 404, <<>>)
                                ELSE Answer(m, GetSecretLoop(r.rows).status, <<>>))
           [] l.handler = "delete_secret" ->
                IF l.op = "get_secret_by_id"
                THEN IF r.kind = "None" THEN Goto(t, "idle", Answer(m, 404, <<>>))
                     ELSE Goto(t, "ds_delete", [m EXCEPT !.op = "delete_secret"])
                ELSE Goto(t, "idle", Answer(m, 200, <<>>))

(***************************************************************************)
(* DatabaseManager.create_secret (db_manager.py 88-117)                    *)
(***************************************************************************)
\* 90-93: SELECT id, name FROM secret_general WHERE name = ?
CsSelect(t) ==
    /\ pc[t] = "cs_select"
    /\ cursor' = SelectByName(loc[t].name)
    /\ Goto(t, "cs_fetchall", [loc[t] EXCEPT !.existed = IdOfName(loc[t].name)])
    /\ UNCHANGED <<secrets, fields, nextId, inTx, disk, born, nops, fileVars, procVars>>

\* 93-95: .fetchall(); if secret: return False
CsFetchAll(t) ==
    /\ pc[t] = "cs_fetchall"
    /\ cursor' = <<>>
    /\ IF cursor # <<>> THEN Return(t, loc[t], RetFalse)
       ELSE Goto(t, "cs_insert", loc[t])
    /\ UNCHANGED <<secrets, fields, nextId, inTx, disk, born, nops, fileVars, procVars>>

\* the largest id of secret_general, 0 for the empty table
MaxRowId == IF secrets = {} THEN 0 ELSE CHOOSE n \in {r.id : r \in secrets} : \A r \in secrets : r.id <= n

\* the id of a new row without AUTOINCREMENT: one more than the largest id
\* the table holds now
max_rowid_plus_one == MaxRowId + 1

\* id INTEGER PRIMARY KEY AUTOINCREMENT (39-40): the id of a new row is one
\* more than the largest id the table has ever held (sqlite_sequence)
NewId == nextId + 1

\* 97-100: INSERT INTO secret_general (name) VALUES(?)
CsInsert(t) ==
    /\ pc[t] = "cs_insert"
    /\ cursor' = <<>>
    /\ inTx' = TRUE
    /\ IF NameTaken(loc[t].name)
       THEN /\ Return(t, loc[t], Raise("IntegrityError"))
            /\ UNCHANGED <<secrets, nextId, born>>
       ELSE /\ secrets' = secrets \cup {[id |-> NewId, name |-> loc[t].name]}
            /\ nextId' = NewId
            /\ born' = born @@ (NewId :> Len(loc[t].data))
            /\ Goto(t, "cs_select2", [loc[t] EXCEPT !.rowid = NewId])
    /\ UNCHANGED <<fields, disk, nops, fileVars, procVars>>

\* 101-103: SELECT id, name FROM secret_general WHERE name = ?
CsSelect2(t) ==
    /\ pc[t] = "cs_select2"
    /\ cursor' = SelectByName(loc[t].name)
    /\ Goto(t, "cs_fetchone", loc[t])
    /\ UNCHANGED <<secrets, fields, nextId, inTx, disk, born, nops, fileVars, procVars>>

\* 104-113: .fetchone(), then up to the first INSERT of the loop; secret[0]
\* of a None is a TypeError
CsFetchOne(t) ==
    /\ pc[t] = "cs_fetchone"
    /\ cursor' = IF cursor = <<>> THEN <<>> ELSE Tail(cursor)
    /\ LET secret == IF cursor = <<>> THEN <<>> ELSE <<Head(cursor)>>
           l == [loc[t] EXCEPT !.secret = secret, !.i = 1]
       IN IF loc[t].data = <<>> THEN Goto(t, "cs_commit", l)
          ELSE IF secret = <<>> THEN Return(t, l, Raise("TypeError"))
          ELSE Goto(t, "cs_field", l)
    /\ UNCHANGED <<secrets, fields, nextId, inTx, disk, born, nops, fileVars, procVars>>

\* 106-114: INSERT INTO secret_fields (label, value, secret_id) VALUES(?, ?, ?)
CsField(t) ==
    /\ pc[t] = "cs_field"
    /\ cursor' = <<>>
    /\ inTx' = TRUE
    /\ LET f == loc[t].data[loc[t].i] IN
       IF f.label = None   \* label TEXT NOT NULL
       THEN /\ Return(t, loc[t], Raise("IntegrityError"))
            /\ UNCHANGED fields
       ELSE /\ fields' = Append(fields, [label |-> f.label, value |-> f.value,
                                         secret_id |-> loc[t].secret[1].c0])
            /\ Goto(t, IF loc[t].i = Len(loc[t].data) THEN "cs_commit" ELSE "cs_field",
                    [loc[t] EXCEPT !.i = @ + 1])
    /\ UNCHANGED <<secrets, nextId, disk, born, nops, fileVars, procVars>>

\* 116-117: self._connection.commit(); return True
CsCommit(t) ==
    /\ pc[t] = "cs_commit"
    /\ disk' = [secrets |-> secrets, fields |-> fields]
    /\ inTx' = FALSE
    /\ Return(t, loc[t], RetTrue)
    /\ UNCHANGED <<secrets, fields, nextId, cursor, born, nops, fileVars, procVars>>

(***************************************************************************)
(* DatabaseManager.get_secret_by_id (49-58)                                *)
(***************************************************************************)
GsSelect(t) ==
    /\ pc[t] = "gs_select"
    /\ cursor' = SelectById(loc[t].key)
    /\ Goto(t, "gs_fetchall", loc[t])
    /\ UNCHANGED <<secrets, fields, nextId, inTx, disk, born, nops, fileVars, procVars>>

GsFetchAll(t) ==
    /\ pc[t] = "gs_fetchall"
    /\ cursor' = <<>>
    /\ Return(t, loc[t], IF cursor # <<>> THEN RetRow(cursor[1]) ELSE RetNone)
    /\ UNCHANGED <<secrets, fields, nextId, inTx, disk, born, nops, fileVars, procVars>>

(***************************************************************************)
(* DatabaseManager.get_secrets_by_substring (60-71)                        *)
(***************************************************************************)
SubSelect(t) ==
    /\ pc[t] = "sub_select"
    /\ cursor' = SelectLike(<<"%">> \o loc[t].sub \o <<"%">>)
    /\ Goto(t, "sub_fetchall", loc[t])
    /\ UNCHANGED <<secrets, fields, nextId, inTx, disk, born, nops, fileVars, procVars>>

SubFetchAll(t) ==
    /\ pc[t] = "sub_fetchall"
    /\ cursor' = <<>>
    /\ Return(t, loc[t], IF cursor # <<>> THEN RetRows(cursor) ELSE RetNone)
    /\ UNCHANGED <<secrets, fields, nextId, inTx, disk, born, nops, fileVars, procVars>>

(***************************************************************************)
(* DatabaseManager.get_fields_of_secret (73-86)                            *)
(***************************************************************************)
\* 74 -> 50-53: the SELECT of get_secret_by_id
GfSelect(t) ==
    /\ pc[t] = "gf_select"
    /\ cursor' = SelectById(loc[t].key)
    /\ Goto(t, "gf_fetchall",
            [loc[t] EXCEPT !.existed = IF SelectById(loc[t].key) = <<>> THEN 0
                                       ELSE SelectById(loc[t].key)[1].c0.v])
    /\ UNCHANGED <<secrets, fields, nextId, inTx, disk, born, nops, fileVars, procVars>>

\* 74-76 -> 53-58: its fetchall; if secret is None: return None
GfFetchAll(t) ==
    /\ pc[t] = "gf_fetchall"
    /\ cursor' = <<>>
    /\ IF cursor = <<>> THEN Return(t, loc[t], RetNone)
       ELSE Goto(t, "gf_select2", [loc[t] EXCEPT !.secret = <<cursor[1]>>])
    /\ UNCHANGED <<secrets, fields, nextId, inTx, disk, born, nops, fileVars, procVars>>

\* 78-80: SELECT label, value FROM secret_fields WHERE secret_id = ? (secret[0])
GfSelect2(t) ==
    /\ pc[t] = "gf_select2"
    /\ cursor' = SelectFields(loc[t].secret[1].c0)
    /\ Goto(t, "gf_fetchall2", loc[t])
    /\ UNCHANGED <<secrets, fields, nextId, inTx, disk, born, nops, fileVars, procVars>>

\* 81-86: .fetchall(); if fields: return fields; return None
GfFetchAll2(t) ==
    /\ pc[t] = "gf_fetchall2"
    /\ cursor' = <<>>
    /\ Return(t, loc[t], IF cursor # <<>> THEN RetRows(cursor) ELSE RetNone)
    /\ UNCHANGED <<secrets, fields, nextId, inTx, disk, born, nops, fileVars, procVars>>

(***************************************************************************)
(* DatabaseManager.delete_secret (119-124)                                 *)
(***************************************************************************)
\* 120-123: DELETE FROM secret_general WHERE id = ?
DsDelete(t) ==
    /\ pc[t] = "ds_delete"
    /\ cursor' = <<>>
    /\ inTx' = TRUE
    /\ secrets' = {r \in secrets : ~KeyEq(IntKey(r.id), loc[t].key)}
    /\ fields' = FieldsAfterDelete(loc[t].key)
    /\ Goto(t, "ds_commit", loc[t])
    /\ UNCHANGED <<nextId, disk, born, nops, fileVars, procVars>>

\* 124: self._connection.commit()
DsCommit(t) ==
    /\ pc[t] = "ds_commit"
    /\ disk' = [secrets |-> secrets, fields |-> fields]
    /\ inTx' = FALSE
    /\ Return(t, loc[t], RetNone)
    /\ UNCHANGED <<secrets, fields, nextId, cursor, born, nops, fileVars, procVars>>

(***************************************************************************)
(* Spec: the callers of DatabaseManager, each method called directly and   *)
(* concurrently from the threads.                                          *)
(***************************************************************************)
\* field dicts a caller passes to create_secret: a well-formed one, and one
\* whose label is None (JSON null passes the handler's checks, api.py 56-59)
StoreBlob == encrypt_string(<<"p">>, <<"v">>, urandom(1))
GoodField == [label |-> <<"u">>, value |-> StoreBlob]
NullField == [label |-> None, value |-> StoreBlob]
FieldLists == {<<>>, <<GoodField>>, <<GoodField, GoodField>>, <<NullField>>, <<GoodField, NullField>>}
Ids == {1, 2}
Substrings == {<<>>, <<"a">>, <<"_">>}

Call(t, p, l) ==
    /\ Idle(t)
    /\ Goto(t, p, l)
    /\ nops' = nops + 1
    /\ UNCHANGED <<storeVars, fileVars, procVars>>

CallCreateSecret(t) ==
    \E name \in Names, data \in FieldLists :
        Call(t, "cs_select", [InitLoc EXCEPT !.op = "create_secret", !.name = name, !.data = data])

CallGetSecretById(t) ==
    \E id \in Ids :
        Call(t, "gs_select", [InitLoc EXCEPT !.op = "get_secret_by_id", !.key = IntKey(id)])

CallGetSecretsBySubstring(t) ==
    \E sub \in Substrings :
        Call(t, "sub_select", [InitLoc EXCEPT !.op = "get_secrets_by_substring", !.sub = sub])

CallGetFieldsOfSecret(t) ==
    \E id \in Ids :
        Call(t, "gf_select", [InitLoc EXCEPT !.op = "get_fields_of_secret", !.key = IntKey(id)])

CallDeleteSecret(t) ==
    \E id \in Ids :
        Call(t, "ds_delete", [InitLoc EXCEPT !.op = "delete_secret", !.key = IntKey(id)])

StoreStep(t) ==
    \/ CsSelect(t) \/ CsFetchAll(t) \/ CsInsert(t) \/ CsSelect2(t)
    \/ CsFetchOne(t) \/ CsField(t) \/ CsCommit(t)
    \/ GsSelect(t) \/ GsFetchAll(t)
    \/ SubSelect(t) \/ SubFetchAll(t)
    \/ GfSelect(t) \/ GfFetchAll(t) \/ GfSelect2(t) \/ GfFetchAll2(t)
    \/ DsDelete(t) \/ DsCommit(t)

\* a fresh database file after create_tables (37-47): two empty tables
InitStore ==
    /\ secrets = {}
    /\ fields = <<>>
    /\ nextId = 0
    /\ inTx = FALSE
    /\ disk = [secrets |-> {}, fields |-> <<>>]
    /\ cursor = <<>>
    /\ born = <<>>

\* no master password set, no temporary file of hash_password left
InitFiles ==
    /\ masterFile = NoFile
    /\ inputTxt = NoFile
    /\ outputTxt = NoFile
    /\ won = <<>>

InitThreads ==
    /\ pc = [t \in Threads |-> "idle"]
    /\ loc = [t \in Threads |-> InitLoc]
    /\ nops = 0

\* db_manager.py 18 and main.py 14: the name of the database file, and a name
\* another caller may pass
DefaultDb == "data/database.db"
DbNames == {DefaultDb, "other.db"}

\* main.py 14 has run: the one DatabaseManager is built and has bootstrapped
\* its file; os.urandom has not been called
InitProcess ==
    /\ urandoms = 0
    /\ singleton = [lock |-> "none", instance |-> 1, made |-> 1, inits |-> 1, connects |-> 1,
                    ddl |-> 1, failed |-> 0, db_name |-> DefaultDb, found |-> "missing"]
    /\ dbFiles = [n \in DbNames |-> IF n = DefaultDb THEN "tables" ELSE "missing"]

Init ==
    /\ InitStore
    /\ InitThreads
    /\ InitFiles
    /\ InitProcess

Next ==
    \E t \in Threads :
        \/ CallCreateSecret(t)
        \/ CallGetSecretById(t)
        \/ CallGetSecretsBySubstring(t)
        \/ CallGetFieldsOfSecret(t)
        \/ CallDeleteSecret(t)
        \/ StoreStep(t)

Spec == Init /\ [][Next]_vars

(***************************************************************************)
(* JSON values of a request.  A key the request does not have is Missing.  *)
(***************************************************************************)
\* t: the type; s: the characters of a string, the digits of a number;
\* es: the elements of a list, <<label, value>> of an object
Js(t, s, es) == [t |-> t, s |-> s, es |-> es]
Missing == Js("missing", <<>>, <<>>)
Null == Js("null", <<>>, <<>>)
Str(s) == Js("str", s, <<>>)
Int_(digits) == Js("int", digits, <<>>)
List(es) == Js("list", <<>>, es)
Dict(label, value) == Js("dict", <<>>, <<label, value>>)
LabelOf(e) == e.es[1]
ValueOf(e) == e.es[2]

\* 'k' in request.json and isinstance(request.json['k'], str) / int / list
IsStr(j) == j.t = "str"
IsInt(j) == j.t = "int"
IsList(j) == j.t = "list"

(***************************************************************************)
(* The master password (crypts/tools.py, crypts/password_to_hash.py).      *)
(***************************************************************************)
\* password_to_hash.py 5-14: SHA256(salt || data) with the one fixed salt,
\* as printed: a function of data, different for different data
hash_with_salt_sha256(data) == [k |-> "hash", v |-> data]

\* input() of password_to_hash.py 22 reads one line of stdin
RECURSIVE FirstLine(_)
FirstLine(s) ==
    IF s = <<>> \/ Head(s) = "\n" THEN <<>> ELSE <<Head(s)>> \o FirstLine(Tail(s))

\* password_to_hash.py 21-24, what the helper prints for a stdin: nothing
\* when stdin is empty (input() raises EOFError), else the hash of its first line
ExeOutput(stdin) ==
    IF stdin.k = "empty" THEN Empty ELSE hash_with_salt_sha256(FirstLine(stdin.v))

\* what hash_password(password) returns when nothing else touches its files
HashOf(password) == ExeOutput(Text(password))

\* check_exist_master_password() is imported by the blueprints and missing
\* from crypts/tools.py: the master password file exists
check_exist_master_password == masterFile # NoFile

\* compare_hash_password(password), missing as well: the stored verifier is
\* the hash of the password
compare_hash_password(password) ==
    masterFile # NoFile /\ masterFile[1] = HashOf(password)

\* the outcome of compare_hash_password for a JSON value; for one that is no
\* string it is `other`, False or an exception, never True
Verify(j, other) ==
    IF IsStr(j) THEN (IF compare_hash_password(j.s) THEN "True" ELSE "False") ELSE other
NonStrVerify == {"False", "raise"}

(***************************************************************************)
(* Requests the threads send.                                              *)
(***************************************************************************)
P == <<"p">>
Q == <<"q">>
PLine == <<"p", "\n", "x">>
Passwords == {P, Q, PLine}

\* request.json['data']: two well-formed fields, and lists whose second
\* element has a null label, is no object, lacks its value, has a number as value
GoodEntry == Dict(Str(<<"u">>), Str(<<"v">>))
GoodData == List(<<GoodEntry, Dict(Str(<<"k">>), Str(<<"w">>))>>)
OddDatas ==
    {List(<<GoodEntry, Dict(Null, Str(<<"w">>))>>),
     List(<<GoodEntry, Str(<<"x">>)>>),
     List(<<GoodEntry, Dict(Str(<<"k">>), Missing)>>),
     List(<<GoodEntry, Dict(Str(<<"k">>), Int_(<<"1">>))>>)}

CreateReq(name, data, password) ==
    [route |-> "create_secret", name |-> name, data |-> data, password |-> password]

CreateRequests ==
    {CreateReq(Str(<<"a">>), d, Str(p)) : d \in {List(<<>>), GoodData}, p \in {P, Q}}
    \cup {CreateReq(Str(<<"A", "b">>), GoodData, Str(Q))}
    \cup {CreateReq(Str(<<"a">>), d, Str(Q)) : d \in OddDatas}
    \cup {CreateReq(Missing, GoodData, Str(Q)), CreateReq(Str(<<"a">>), Str(<<"x">>), Str(Q)),
          CreateReq(Str(<<"a">>), GoodData, Missing), CreateReq(Str(<<"a">>), GoodData, Int_(<<"1">>))}

IdReq(route, id, password) == [route |-> route, id |-> id, password |-> password]

IdRequests(route) ==
    {IdReq(route, Int_(<<"1">>), Str(P)), IdReq(route, Int_(<<"1">>), Str(Q)),
     IdReq(route, Str(<<"1">>), Int_(<<"1">>)), IdReq(route, Str(<<"1">>), Str(P)),
     IdReq(route, Int_(<<"1">>), Missing), IdReq(route, Missing, Str(P))}

FindRequests == {[route |-> "find_by_name", name |-> n] : n \in {Missing, Str(<<>>), Str(<<"a">>)}}

SetRequests ==
    {[route |-> "set_master_password", password |-> pw] :
        pw \in {Str(p) : p \in Passwords} \cup {Missing, Int_(<<"1">>)}}

\* how sqlite compares the bound id with the INTEGER column: a text that
\* reads as a number is that number
SqlKey(j) ==
    IF j.s = <<"1">> THEN IntKey(1)
    ELSE IF j.s = <<"2">> THEN IntKey(2)
    ELSE TextKey(j.s)

\* a thread takes up a request
Begin(t, handler, req) == [InitLoc EXCEPT !.handler = handler, !.req = req, !.late = won # <<>>]

\* a field of the secret with this key does not decrypt under the password
FailsToDecrypt(key, password) ==
    \E i \in 1..Len(SelectFields(key)) : ~decrypt_string(password, SelectFields(key)[i].c1).ok

\* ghosts of a request that carries an id and a password
Seen(l, req, v) ==
    [l EXCEPT !.verified = IF check_exist_master_password THEN v ELSE "none",
              !.damaged = IsStr(req.password) /\ FailsToDecrypt(SqlKey(req.id), req.password.s),
              !.existed = IF \E r \in secrets : KeyEq(IntKey(r.id), SqlKey(req.id))
                          THEN (CHOOSE r \in secrets : KeyEq(IntKey(r.id), SqlKey(req.id))).id
                          ELSE 0]

Request(t, p, l) ==
    /\ Idle(t)
    /\ Goto(t, p, l)
    /\ nops' = nops + 1

(***************************************************************************)
(* Blueprint api (api.py).  Its before_request hook (13-16) answers 500    *)
(* while check_exist_master_password() is false.  The hook and the         *)
(* handler's own first read of the master password file are one step: the  *)
(* file, once there, stays, so a request whose hook ran earlier is answered *)
(* as one whose hook runs together with the handler.                       *)
(***************************************************************************)
\* 19-24
find_by_name(t) ==
    \E req \in FindRequests :
        LET l == Begin(t, "find_by_name", req) IN
        /\ IF ~check_exist_master_password THEN Request(t, "idle", Answer(l, 500, <<>>))
           ELSE IF req.name = Missing THEN Request(t, "idle", Answer(l, 400, <<>>))
           ELSE Request(t, "sub_select", [l EXCEPT !.op = "get_secrets_by_substring",
                                                   !.sub = req.name.s])
        /\ UNCHANGED <<storeVars, fileVars, procVars>>

\* a loop that leaves out the elements it cannot read and goes on
RECURSIVE skip_malformed(_, _, _, _)
skip_malformed(password, data, drawn, i) ==
    IF i > Len(data) THEN [status |-> 0, fields |-> <<>>, draws |-> 0]
    ELSE LET e == data[i] IN
         IF e.t # "dict" \/ LabelOf(e) = Missing \/ ~IsStr(ValueOf(e))
         THEN skip_malformed(password, data, drawn, i + 1)
         ELSE LET rest == skip_malformed(password, data, drawn + 1, i + 1) IN
              [status |-> rest.status,
               fields |-> <<[label |-> IF IsStr(LabelOf(e)) THEN LabelOf(e).s ELSE None,
                             value |-> encrypt_string(password, ValueOf(e).s, urandom(drawn + 1))]>>
                          \o rest.fields,
               draws |-> rest.draws + 1]

\* 53-61: the loop over request.json['data'], run after os.urandom was called
\* `drawn` times; the status it aborts with (0 when it runs through), the
\* fields it built and the calls of os.urandom it made.  encrypt_string draws
\* its salt first (tools.py 34) and then, for a value that is no string,
\* fails in plaintext.encode (AttributeError)
RECURSIVE EncryptFields(_, _, _, _)
EncryptFields(password, data, drawn, i) ==
    IF i > Len(data) THEN [status |-> 0, fields |-> <<>>, draws |-> 0]
    ELSE LET e == data[i] IN
         IF e.t # "dict" \/ LabelOf(e) = Missing \/ ValueOf(e) = Missing
         THEN [status |-> 400, fields |-> <<>>, draws |-> 0]
         ELSE IF ~IsStr(ValueOf(e)) THEN [status |-> 500, fields |-> <<>>, draws |-> 1]
         ELSE LET rest == EncryptFields(password, data, drawn + 1, i + 1)
                  f == [label |-> IF IsStr(LabelOf(e)) THEN LabelOf(e).s ELSE None,
                        value |-> encrypt_string(password, ValueOf(e).s, urandom(drawn + 1))]
              IN IF rest.status # 0 THEN [rest EXCEPT !.draws = @ + 1]
                 ELSE [status |-> 0, fields |-> <<f>> \o rest.fields, draws |-> rest.draws + 1]

\* 35-63, up to the call of DatabaseManager().create_secret
create_secret(t) ==
    \E req \in CreateRequests :
        LET b == Begin(t, "create_secret", req)
            l == [b EXCEPT !.verified = IF check_exist_master_password /\ IsStr(req.password)
                                        THEN Verify(req.password, "raise") ELSE "none"] IN
        /\ IF ~check_exist_master_password
           THEN Request(t, "idle", Answer(l, 500, <<>>)) /\ UNCHANGED urandoms
           ELSE IF ~IsStr(req.name) \/ ~IsList(req.data) \/ ~IsStr(req.password)
           THEN Request(t, "idle", Answer(l, 400, <<>>)) /\ UNCHANGED urandoms
           ELSE IF compare_hash_password(req.password.s)
           THEN Request(t, "idle", Answer(l, 403, <<>>)) /\ UNCHANGED urandoms
           ELSE LET e == EncryptFields(req.password.s, req.data.es, urandoms, 1) IN
                /\ urandoms' = urandoms + e.draws
                /\ IF e.status # 0 THEN Request(t, "idle", Answer(l, e.status, <<>>))
                   ELSE Request(t, "cs_select", [l EXCEPT !.op = "create_secret",
                                                          !.name = req.name.s, !.data = e.fields])
        /\ UNCHANGED <<storeVars, fileVars, bootVars>>

\* 72-78 and 98-104: the checks of get_secret and of delete_secret abort
\* with 400 when id is an int, and when password is a str
IdRequestRejected(req) ==
    \/ req.id = Missing \/ IsInt(req.id)
    \/ req.password = Missing \/ IsStr(req.password)

\* 70-83, up to the call of DatabaseManager().get_fields_of_secret
get_secret(t) ==
    \E req \in IdRequests("get_secret"), other \in NonStrVerify :
        LET v == Verify(req.password, other)
            l == Seen(Begin(t, "get_secret", req), req, v) IN
        /\ IF ~check_exist_master_password THEN Request(t, "idle", Answer(l, 500, <<>>))
           ELSE IF IdRequestRejected(req) THEN Request(t, "idle", Answer(l, 400, <<>>))
           ELSE IF v = "raise" THEN Request(t, "idle", Answer(l, 500, <<>>))
           ELSE IF v = "False" THEN Request(t, "idle", Answer(l, 403, <<>>))
           ELSE Request(t, "gf_select", [l EXCEPT !.op = "get_fields_of_secret",
                                                  !.key = SqlKey(req.id)])
        /\ UNCHANGED <<storeVars, fileVars, procVars>>

\* 96-109, up to the call of DatabaseManager().get_secret_by_id
delete_secret(t) ==
    \E req \in IdRequests("delete_secret"), other \in NonStrVerify :
        LET v == Verify(req.password, other)
            l == Seen(Begin(t, "delete_secret", req), req, v) IN
        /\ IF ~check_exist_master_password THEN Request(t, "idle", Answer(l, 500, <<>>))
           ELSE IF IdRequestRejected(req) THEN Request(t, "idle", Answer(l, 400, <<>>))
           ELSE IF v = "raise" THEN Request(t, "idle", Answer(l, 500, <<>>))
           ELSE IF v = "False" THEN Request(t, "idle", Answer(l, 403, <<>>))
           ELSE Request(t, "gs_select", [l EXCEPT !.op = "get_secret_by_id",
                                                  !.key = SqlKey(req.id)])
        /\ UNCHANGED <<storeVars, fileVars, procVars>>

(***************************************************************************)
(* Blueprint api_master (api_master_password.py); no before_request hook.  *)
(* Each `with open(...)` block, the os.system call and each os.remove is   *)
(* one step.                                                               *)
(***************************************************************************)
\* 11-16
master_password_exist(t) ==
    /\ Request(t, "idle", Answer(Begin(t, "master_password_exist", [route |-> "master_password_exist"]),
                                 IF check_exist_master_password THEN 200 ELSE 404, <<>>))
    /\ UNCHANGED <<storeVars, fileVars, procVars>>

\* 19-26: the checks of set_master_password
set_master_password(t) ==
    \E req \in SetRequests :
        LET l == Begin(t, "set_master_password", req) IN
        /\ IF ~IsStr(req.password) THEN Request(t, "idle", Answer(l, 400, <<>>))
           ELSE IF check_exist_master_password THEN Request(t, "idle", Answer(l, 400, <<>>))
           ELSE Request(t, "smp_open", l)
        /\ UNCHANGED <<storeVars, fileVars, procVars>>

\* 28: open('data/master_password.txt', 'w') creates the file, or empties it
SmpOpen(t) ==
    /\ pc[t] = "smp_open"
    /\ masterFile' = File(Empty)
    /\ Goto(t, "hp_write", loc[t])
    /\ UNCHANGED <<storeVars, nops, inputTxt, outputTxt, won, procVars>>

\* tools.py 65-66: with open('input.txt', 'w') as file: file.write(password)
HpWrite(t) ==
    /\ pc[t] = "hp_write"
    /\ inputTxt' = File(Text(loc[t].req.password.s))
    /\ Goto(t, "hp_system", loc[t])
    /\ UNCHANGED <<storeVars, nops, masterFile, outputTxt, won, procVars>>

\* tools.py 68: os.system('password_to_hash.exe < input.txt > output.txt');
\* without input.txt the shell runs nothing and leaves output.txt alone
HpSystem(t) ==
    /\ pc[t] = "hp_system"
    /\ outputTxt' = IF inputTxt = NoFile THEN outputTxt ELSE File(ExeOutput(inputTxt[1]))
    /\ Goto(t, "hp_read", loc[t])
    /\ UNCHANGED <<storeVars, nops, masterFile, inputTxt, won, procVars>>

\* an exception inside set_master_password's with block: the file is closed
\* as it is, Flask answers 500
SmpFails(t, e) == Goto(t, "idle", Answer([loc[t] EXCEPT !.ret = Raise(e)], 500, <<>>))

\* tools.py 70-71: with open('output.txt', 'r') as file: hash = file.read()
HpRead(t) ==
    /\ pc[t] = "hp_read"
    /\ IF outputTxt = NoFile THEN SmpFails(t, "FileNotFoundError")
       ELSE Goto(t, "hp_rm_in", [loc[t] EXCEPT !.hash = outputTxt[1]])
    /\ UNCHANGED <<storeVars, nops, fileVars, procVars>>

\* tools.py 73: os.remove('input.txt')
HpRemoveInput(t) ==
    /\ pc[t] = "hp_rm_in"
    /\ inputTxt' = NoFile
    /\ IF inputTxt = NoFile THEN SmpFails(t, "FileNotFoundError")
       ELSE Goto(t, "hp_rm_out", loc[t])
    /\ UNCHANGED <<storeVars, nops, masterFile, outputTxt, won, procVars>>

\* tools.py 74-76: os.remove('output.txt'); return hash
HpRemoveOutput(t) ==
    /\ pc[t] = "hp_rm_out"
    /\ outputTxt' = NoFile
    /\ IF outputTxt = NoFile THEN SmpFails(t, "FileNotFoundError")
       ELSE Goto(t, "smp_write", loc[t])
    /\ UNCHANGED <<storeVars, nops, masterFile, inputTxt, won, procVars>>

\* 29-31: file.write(hash), the file is closed, 201
SmpWrite(t) ==
    /\ pc[t] = "smp_write"
    /\ masterFile' = IF loc[t].hash = Empty THEN masterFile ELSE File(loc[t].hash)
    /\ won' = Append(won, loc[t].req.password.s)
    /\ Goto(t, "idle", Answer([loc[t] EXCEPT !.ret = RetTrue], 201, <<>>))
    /\ UNCHANGED <<storeVars, nops, inputTxt, outputTxt, procVars>>

MasterStep(t) ==
    \/ SmpOpen(t) \/ HpWrite(t) \/ HpSystem(t) \/ HpRead(t)
    \/ HpRemoveInput(t) \/ HpRemoveOutput(t) \/ SmpWrite(t)

(***************************************************************************)
(* SpecApi: the threads of the Flask server, each answering requests.  No  *)
(* request gets to the store through get_secret or delete_secret           *)
(* (StoreReachedOnlyByCreateAndFind), so their steps are left out of       *)
(* NextApi.                                                                *)
(***************************************************************************)
ApiStoreStep(t) ==
    \/ CsSelect(t) \/ CsFetchAll(t) \/ CsInsert(t) \/ CsSelect2(t)
    \/ CsFetchOne(t) \/ CsField(t) \/ CsCommit(t)
    \/ SubSelect(t) \/ SubFetchAll(t)

NextApi ==
    \E t \in Threads :
        \/ find_by_name(t)
        \/ create_secret(t)
        \/ get_secret(t)
        \/ delete_secret(t)
        \/ master_password_exist(t)
        \/ set_master_password(t)
        \/ MasterStep(t)
        \/ ApiStoreStep(t)

SpecApi == Init /\ [][NextApi]_vars

StoreReachedOnlyByCreateAndFind ==
    \A t \in Threads :
        pc[t] \notin {"gs_select", "gs_fetchall", "gf_select", "gf_fetchall",
                      "gf_select2", "gf_fetchall2", "ds_delete", "ds_commit"}

(***************************************************************************)
(* Claims about the store (checked under Spec).                            *)
(***************************************************************************)
View == [secrets |-> secrets, fields |-> fields]

\* no secret_general row with this id and no secret_fields row referring to it
NoRowOf(id, tables) ==
    /\ \A r \in tables.secrets : r.id # id
    /\ \A i \in 1..Len(tables.fields) : ~KeyEq(tables.fields[i].secret_id, IntKey(id))

\* create_secret of thread t has inserted its parent row and then failed on a field row
FailedOnField(t) ==
    /\ pc[t] = "idle"
    /\ loc[t].op = "create_secret"
    /\ loc[t].rowid # 0
    /\ loc[t].ret.kind = "raise"
    /\ loc[t].ret.exc = "IntegrityError"

\* C1: when create_secret fails on a field row after it inserted the parent
\* row, neither that parent row nor any of its field rows is to be seen
\* afterwards, on the connection or in the committed database.
C1_NothingLeftAfterFailedCreate ==
    \A t \in Threads :
        FailedOnField(t) => NoRowOf(loc[t].rowid, View) /\ NoRowOf(loc[t].rowid, disk)

\* get_fields_of_secret of thread t returned rows of secret_fields
ReadFields(t) ==
    /\ pc[t] = "idle"
    /\ loc[t].op = "get_fields_of_secret"
    /\ loc[t].key.t = "int"
    /\ loc[t].ret.kind = "rows"
    /\ \A i \in 1..Len(loc[t].ret.rows) : loc[t].ret.rows[i].kind = "field"

\* C2: a reader never gets fewer fields of a secret than the create_secret
\* call that made the secret was given.
C2_ReaderSeesAllFieldsOrNone ==
    \A t \in Threads :
        ReadFields(t) /\ loc[t].key.v \in DOMAIN born
            => Len(loc[t].ret.rows) >= born[loc[t].key.v]

\* the UNIQUE constraint at work: no two rows of secret_general have the same name
NamesUnique == \A r1, r2 \in secrets : r1.name = r2.name => r1 = r2

\* create_secret of thread t has ended, and the name it was called with was
\* held by a row when its SELECT ran, a row that is still there
EndedOnTakenName(t) ==
    /\ pc[t] = "idle"
    /\ loc[t].op = "create_secret"
    /\ loc[t].existed # 0
    /\ \E r \in secrets : r.id = loc[t].existed /\ r.name = loc[t].name

\* C3: create_secret on a name that already exists returns False and adds no
\* row, and no name is ever held by two rows.
C3_NameConflictAndUnique ==
    /\ NamesUnique
    /\ \A t \in Threads : EndedOnTakenName(t) => loc[t].ret.kind = "False" /\ loc[t].rowid = 0

\* delete_secret of thread t has ended
Deleted(t) == pc[t] = "idle" /\ loc[t].op = "delete_secret" /\ loc[t].ret.kind = "None"

\* every row of secret_fields refers to a row of secret_general
FieldsHaveParent ==
    \A i \in 1..Len(fields) : \E r \in secrets : KeyEq(fields[i].secret_id, IntKey(r.id))

\* C4: after delete_secret(id) no row of secret_fields has secret_id = id;
\* every row of secret_fields refers to an existing row of secret_general.
C4_DeleteCascades ==
    /\ \A t \in Threads :
          Deleted(t) => \A i \in 1..Len(fields) : ~KeyEq(fields[i].secret_id, loc[t].key)
    /\ FieldsHaveParent

(***************************************************************************)
(* Claims about the handlers (checked under SpecApi).                      *)
(***************************************************************************)
\* thread t has answered a request to this handler
Answered(t, handler) == pc[t] = "idle" /\ loc[t].handler = handler /\ loc[t].status # 0

\* the request's data is a list of objects, each with a string label and a string value
WellFormedData(data) ==
    /\ IsList(data)
    /\ \A i \in 1..Len(data.es) :
          /\ data.es[i].t = "dict"
          /\ IsStr(LabelOf(data.es[i]))
          /\ IsStr(ValueOf(data.es[i]))

WellFormedCreate(req) == IsStr(req.name) /\ WellFormedData(req.data) /\ IsStr(req.password)

\* C5: a well-formed create_secret request is answered 403, and adds nothing,
\* when its password fails verification, and creates the secret (201) when
\* its password passes verification and its name is unused.
C5_CreateIffVerified ==
    \A t \in Threads :
        Answered(t, "create_secret") /\ WellFormedCreate(loc[t].req) =>
            /\ loc[t].verified = "False" => loc[t].status = 403 /\ loc[t].rowid = 0
            /\ loc[t].verified = "True" => loc[t].status = 201

\* C6: of the set_master_password calls that run on a vault without a master
\* password only one is answered 201, and the stored verifier is the hash of
\* that call's password.
C6_OneEstablishWins ==
    /\ Len(won) <= 1
    /\ won # <<>> => masterFile = File(HashOf(won[1]))

\* C7: once set_master_password(P1) has been answered 201, every later
\* set_master_password is answered 400, verify(P1) is true and verify(P2) is
\* false for every other password P2.
C7_EstablishedForGood ==
    /\ \A t \in Threads :
          Answered(t, "set_master_password") /\ loc[t].late => loc[t].status = 400
    /\ won # <<>> =>
          /\ compare_hash_password(won[1])
          /\ \A p2 \in Passwords \ {won[1]} : ~compare_hash_password(p2)

\* the fields of secret id as get_secret is to answer them: label and plaintext
PlainFields(id, password) ==
    LET rows == SelectFields(IntKey(id))
    IN [i \in 1..Len(rows) |->
            [label |-> rows[i].c0.v, value |-> decrypt_string(password, rows[i].c1).text]]

\* the request carries an integer id and a string password
WellTyped(req) == IsInt(req.id) /\ IsStr(req.password)

\* C8: get_secret with the id of a stored secret and the verified password
\* answers 200 with the secret's fields, in order, labels and plaintext
\* values; with a password that fails verification it answers 403.
C8_ReadReturnsCreatedFields ==
    \A t \in Threads :
        Answered(t, "get_secret") /\ WellTyped(loc[t].req) =>
            /\ loc[t].verified = "False" => loc[t].status = 403
            /\ loc[t].verified = "True" /\ loc[t].existed # 0 =>
                  /\ loc[t].status = 200
                  /\ loc[t].body = PlainFields(loc[t].existed, loc[t].req.password.s)

\* C9: get_secret and delete_secret answer 400 exactly when id is missing or
\* no integer, or password is missing or no string.
C9_RejectsExactlyMalformed ==
    \A t \in Threads :
        (Answered(t, "get_secret") \/ Answered(t, "delete_secret")) /\ loc[t].verified # "none" =>
            (loc[t].status = 400 <=> ~WellTyped(loc[t].req))

\* C10: delete_secret with a verified password and an id no secret has
\* answers 404 (and removes nothing); of two delete_secret calls for the same
\* id only one is answered 200.
C10_DeleteOfMissingIsNotFound ==
    /\ \A t \in Threads :
          Answered(t, "delete_secret") /\ WellTyped(loc[t].req)
              /\ loc[t].verified = "True" /\ loc[t].existed = 0 => loc[t].status = 404
    /\ \A t1, t2 \in Threads :
          t1 # t2 /\ Answered(t1, "delete_secret") /\ Answered(t2, "delete_secret")
              /\ loc[t1].existed # 0 /\ loc[t1].existed = loc[t2].existed
              => ~(loc[t1].status = 200 /\ loc[t2].status = 200)

\* a delete_secret request of thread t has got to DatabaseManager.delete_secret
DeleteReachedStore(t) ==
    /\ loc[t].handler = "delete_secret"
    /\ pc[t] \in {"ds_delete", "ds_commit"} \/ (pc[t] = "idle" /\ loc[t].status = 200)

\* C11: a delete_secret request with an integer id and a string password that
\* fails verification is answered 403, whether the id exists or not, and only
\* a request whose password passed verification gets to remove a row.
C11_DeleteNeedsVerifiedPassword ==
    \A t \in Threads :
        /\ Answered(t, "delete_secret") /\ WellTyped(loc[t].req) /\ loc[t].verified = "False"
              => loc[t].status = 403
        /\ DeleteReachedStore(t) => loc[t].verified = "True"

\* no request removes a row: every id handed out still has its row
NoRowRemoved == \A id \in DOMAIN born : \E r \in secrets : r.id = id

(***************************************************************************)
(* Claims about the shared connection (checked under Spec).                *)
(***************************************************************************)
\* thread t is inside a DatabaseManager method: its first statement has run,
\* it has not returned (or raised) yet
InOperation(t) ==
    pc[t] \in {"cs_fetchall", "cs_insert", "cs_select2", "cs_fetchone", "cs_field", "cs_commit",
               "gs_fetchall", "sub_fetchall",
               "gf_fetchall", "gf_select2", "gf_fetchall2",
               "ds_commit"}

\* C12: at any time at most one thread is inside a DatabaseManager method,
\* between the method's first statement and its return.
C12_OneOperationAtATime ==
    \A t1, t2 \in Threads : t1 # t2 => ~(InOperation(t1) /\ InOperation(t2))

\* get_fields_of_secret of thread t has returned
GotFields(t) ==
    /\ pc[t] = "idle"
    /\ loc[t].op = "get_fields_of_secret"
    /\ loc[t].ret.kind \in {"None", "rows"}

\* C13: get_fields_of_secret(id) returns None exactly when no secret has the
\* id (as its SELECT finds the table); for a secret that has no fields it
\* returns the empty list.
C13_NoneIffNoSecret ==
    \A t \in Threads :
        GotFields(t) =>
            /\ loc[t].ret.kind = "None" <=> loc[t].existed = 0
            /\ loc[t].existed # 0 /\ born[loc[t].existed] = 0 =>
                  loc[t].ret.kind = "rows" /\ loc[t].ret.rows = <<>>

\* q is a prefix of s, letters compared without regard to case and every
\* other character with itself
RECURSIVE LiteralPrefix(_, _)
LiteralPrefix(q, s) ==
    \/ q = <<>>
    \/ /\ s # <<>>
       /\ Lower(Head(q)) = Lower(Head(s))
       /\ LiteralPrefix(Tail(q), Tail(s))

\* s contains q as a case-insensitive literal substring
RECURSIVE Contains(_, _)
Contains(q, s) == LiteralPrefix(q, s) \/ (s # <<>> /\ Contains(q, Tail(s)))

\* C14: the rows the SELECT of get_secrets_by_substring(q) finds are exactly
\* the rows whose name contains q as a case-insensitive literal substring, % and
\* _ matching only themselves: all rows for the empty q, none when no name matches.
C14_FindMatchesLiterally ==
    [][\A t \in Threads :
          pc[t] = "sub_select" /\ pc'[t] = "sub_fetchall" =>
              cursor' = RowsOf({r \in secrets : Contains(loc[t].sub, r.name)})]_vars

(***************************************************************************)
(* SpecCipher: the callers of the field cipher.  A thread encrypts a       *)
(* plaintext, the blob may be damaged while it is stored, and the thread   *)
(* decrypts what is left of it.                                            *)
(***************************************************************************)
Plaintexts == {<<>>, <<"v">>, <<"e-acute", "v">>}

\* encrypt_string(pw, plain)
CallEncryptString(t) ==
    \E pw \in Passwords, plain \in Plaintexts :
        /\ Idle(t)
        /\ Goto(t, "blob", [InitLoc EXCEPT !.op = "encrypt_string", !.pw = pw, !.plain = plain,
                                           !.blob = encrypt_string(pw, plain, urandom(urandoms + 1))])
        /\ urandoms' = urandoms + 1
        /\ nops' = nops + 1
        /\ UNCHANGED <<storeVars, fileVars, bootVars>>

\* what damage makes of a token: its last byte lost, all of it lost, its
\* bytes out of order, a byte added, the ciphertext of another message, no
\* Fernet bytes at all
AlteredTokens(token) ==
    {SubSeq(token, 1, Len(token) - 1), <<>>, <<token[2], token[1]>>, Append(token, Byte(0)),
     <<Sym("ct", token[1].sym[1].key, encode(<<"w">>)), token[2]>>, <<Byte(0), Byte(0)>>}

\* the token part of the stored blob is altered, the salt left as it is
AlterToken(t) ==
    /\ pc[t] = "blob"
    /\ loc[t].altered = "no"
    /\ \E token \in AlteredTokens(SubSeq(loc[t].blob, SALT_SIZE + 1, Len(loc[t].blob))) :
          Goto(t, "blob", [loc[t] EXCEPT !.blob = SubSeq(loc[t].blob, 1, SALT_SIZE) \o token,
                                         !.altered = "token"])
    /\ UNCHANGED <<storeVars, fileVars, nops, procVars>>

\* the stored blob is cut to fewer than SALT_SIZE bytes
TruncateBlob(t) ==
    /\ pc[t] = "blob"
    /\ loc[t].altered = "no"
    /\ \E n \in {0, SALT_SIZE - 1} :
          Goto(t, "blob", [loc[t] EXCEPT !.blob = SubSeq(loc[t].blob, 1, n), !.altered = "short"])
    /\ UNCHANGED <<storeVars, fileVars, nops, procVars>>

\* decrypt_string(pw2, blob)
CallDecryptString(t) ==
    \E pw2 \in Passwords :
        /\ pc[t] = "blob"
        /\ nops < MaxOps
        /\ Goto(t, "idle", [loc[t] EXCEPT !.op = "decrypt_string", !.pw2 = pw2,
                                          !.out = decrypt_string(pw2, loc[t].blob)])
        /\ nops' = nops + 1
        /\ UNCHANGED <<storeVars, fileVars, procVars>>

NextCipher ==
    \E t \in Threads :
        \/ CallEncryptString(t)
        \/ AlterToken(t)
        \/ TruncateBlob(t)
        \/ CallDecryptString(t)

SpecCipher == Init /\ [][NextCipher]_vars

(***************************************************************************)
(* Construction of the DatabaseManager (db_manager.py 5-47): threads call  *)
(* DatabaseManager(db_name) in a process that has built none yet.          *)
(* sqlite3.connect is taken to succeed (its directory exists).             *)
(***************************************************************************)
\* a lock that lets every thread in
no_lock(t) == TRUE

\* 10: `with cls._lock` lets a thread in when no thread holds the lock
LockFree(t) == singleton.lock = "none"

\* a bootstrap at every connect
always_bootstrap(found) == TRUE

\* 26-28: flag, from what os.path.exists(self.db_name) finds
flag(found) == found = "missing"

\* DatabaseManager(db)
CallDatabaseManager(t) ==
    \E db \in DbNames :
        /\ Idle(t)
        /\ Goto(t, "sm_lock", [InitLoc EXCEPT !.op = "DatabaseManager", !.db = db])
        /\ nops' = nops + 1
        /\ UNCHANGED <<storeVars, fileVars, procVars>>

\* 10: with cls._lock
SmAcquire(t) ==
    /\ pc[t] = "sm_lock"
    /\ LockFree(t)
    /\ singleton' = [singleton EXCEPT !.lock = t]
    /\ Goto(t, "sm_check", loc[t])
    /\ UNCHANGED <<storeVars, fileVars, nops, urandoms, dbFiles>>

\* 11-12: if cls not in cls._instances, super().__call__ makes an object and
\* runs __init__ on it
SmCheck(t) ==
    /\ pc[t] = "sm_check"
    /\ IF singleton.instance = 0
       THEN /\ singleton' = [singleton EXCEPT !.made = @ + 1]
            /\ Goto(t, "dm_init", [loc[t] EXCEPT !.inst = singleton.made + 1])
       ELSE /\ UNCHANGED singleton
            /\ Goto(t, "sm_return", loc[t])
    /\ UNCHANGED <<storeVars, fileVars, nops, urandoms, dbFiles>>

\* 18-22: a new object has no attribute `connection`
DmInit(t) ==
    /\ pc[t] = "dm_init"
    /\ singleton' = [singleton EXCEPT !.inits = @ + 1, !.db_name = loc[t].db]
    /\ Goto(t, "connect", loc[t])
    /\ UNCHANGED <<storeVars, fileVars, nops, urandoms, dbFiles>>

\* 26-28
ConnExists(t) ==
    /\ pc[t] = "connect"
    /\ singleton' = [singleton EXCEPT !.found = dbFiles[loc[t].db]]
    /\ Goto(t, "connect_open", [loc[t] EXCEPT !.flag = flag(dbFiles[loc[t].db])])
    /\ UNCHANGED <<storeVars, fileVars, nops, urandoms, dbFiles>>

\* 30-35: self._connection is None; sqlite3.connect makes the file when there
\* is none
ConnOpen(t) ==
    /\ pc[t] = "connect_open"
    /\ singleton' = [singleton EXCEPT !.connects = @ + 1]
    /\ dbFiles' = [dbFiles EXCEPT ![loc[t].db] = IF @ = "missing" THEN "empty" ELSE @]
    /\ Goto(t, IF loc[t].flag THEN "create_tables" ELSE "sm_store", loc[t])
    /\ UNCHANGED <<storeVars, fileVars, nops, urandoms>>

\* 37-47: CREATE TABLE of a table the file already has raises
\* sqlite3.OperationalError, which leaves __init__ and the with block
create_tables(t) ==
    /\ pc[t] = "create_tables"
    /\ IF dbFiles[loc[t].db] = "empty"
       THEN /\ singleton' = [singleton EXCEPT !.ddl = @ + 1]
            /\ dbFiles' = [dbFiles EXCEPT ![loc[t].db] = "tables"]
            /\ Goto(t, "sm_store", loc[t])
       ELSE /\ singleton' = [singleton EXCEPT !.ddl = @ + 1, !.failed = @ + 1, !.lock = "none"]
            /\ UNCHANGED dbFiles
            /\ Goto(t, "idle", [loc[t] EXCEPT !.inst = 0, !.ret = Raise("OperationalError")])
    /\ UNCHANGED <<storeVars, fileVars, nops, urandoms>>

\* 13
SmStore(t) ==
    /\ pc[t] = "sm_store"
    /\ singleton' = [singleton EXCEPT !.instance = loc[t].inst]
    /\ Goto(t, "sm_return", loc[t])
    /\ UNCHANGED <<storeVars, fileVars, nops, urandoms, dbFiles>>

\* 14, and the end of the with block
SmReturn(t) ==
    /\ pc[t] = "sm_return"
    /\ singleton' = [singleton EXCEPT !.lock = "none"]
    /\ Goto(t, "idle", [loc[t] EXCEPT !.inst = singleton.instance, !.ret = RetTrue])
    /\ UNCHANGED <<storeVars, fileVars, nops, urandoms, dbFiles>>

\* what a database file may hold as the process starts: no file, a file
\* without tables, the two tables empty, the two tables with rows
FileStates == {"missing", "empty", "tables", "rows"}

\* the process has built no DatabaseManager yet
InitBoot ==
    /\ InitStore
    /\ InitThreads
    /\ InitFiles
    /\ urandoms = 0
    /\ singleton = [lock |-> "none", instance |-> 0, made |-> 0, inits |-> 0, connects |-> 0,
                    ddl |-> 0, failed |-> 0, db_name |-> "", found |-> "none"]
    /\ dbFiles \in [DbNames -> FileStates]

NextBoot ==
    \E t \in Threads :
        \/ CallDatabaseManager(t)
        \/ SmAcquire(t)
        \/ SmCheck(t)
        \/ DmInit(t)
        \/ ConnExists(t)
        \/ ConnOpen(t)
        \/ create_tables(t)
        \/ SmStore(t)
        \/ SmReturn(t)

SpecBoot == InitBoot /\ [][NextBoot]_vars

(***************************************************************************)
(* Claims about the field cipher (checked under SpecCipher).               *)
(***************************************************************************)
\* decrypt_string of thread t has returned or raised
Decrypted(t) == pc[t] = "idle" /\ loc[t].op = "decrypt_string"

\* C19: decrypt_string(P, encrypt_string(P, V)) returns V.
C19_RoundTrip ==
    \A t \in Threads :
        Decrypted(t) /\ loc[t].altered = "no" /\ loc[t].pw2 = loc[t].pw
            => loc[t].out = Plain(loc[t].plain)

\* thread t has decrypted an untouched blob under its own password, a
\* plaintext with a character of more than one byte
C19_Witness ==
    \E t \in Threads :
        /\ Decrypted(t) /\ loc[t].altered = "no" /\ loc[t].pw2 = loc[t].pw
        /\ loc[t].plain = <<"e-acute", "v">>
        /\ loc[t].out.ok

OtherOutcomes == {200, 400, 403, 404, 500}

\* C15: get_secret with a verified password for a secret one of whose stored
\* values fails decryption under that password is answered with the outcome
\* DataCorruption, an answer of its own that is none of the other outcomes
\* (the uncaught exception among them), and with no field values.
C15_DataCorruptionIsTyped ==
    \A t \in Threads :
        Answered(t, "get_secret") /\ WellTyped(loc[t].req)
            /\ loc[t].verified = "True" /\ loc[t].existed # 0 /\ loc[t].damaged
            => loc[t].status \notin OtherOutcomes /\ loc[t].body = <<>>

\* value is a blob encrypt_string makes under the password: SALT_SIZE bytes
\* of salt and then the token of some text under the key of (password, salt)
IsBlobUnder(value, password) ==
    /\ decrypt_string(password, value).ok
    /\ value = encrypt_string(password, decrypt_string(password, value).text,
                              SubSeq(value, 1, SALT_SIZE))

\* the field dicts thread t's create_secret request handed to
\* DatabaseManager.create_secret hold the request's values, each encrypted
\* under the request's password
HandsOverBlobs(t) ==
    loc[t].handler = "create_secret" /\ loc[t].op = "create_secret" =>
        \A i \in 1..Len(loc[t].data) :
            /\ IsBlobUnder(loc[t].data[i].value, loc[t].req.password.s)
            /\ decrypt_string(loc[t].req.password.s, loc[t].data[i].value).text
                  = ValueOf(loc[t].req.data.es[i]).s

\* C16: every value in secret_fields is a blob of encrypt_string (salt, then
\* token) under the password of a create_secret request, never the bytes of a
\* plaintext; the values a request stores are under that request's password.
C16_OnlyBlobsStored ==
    /\ \A i \in 1..Len(fields) : \E pw \in Passwords : IsBlobUnder(fields[i].value, pw)
    /\ \A t \in Threads : HandsOverBlobs(t)

\* a create_secret request with two fields has been answered 201 and its
\* values are in secret_fields
C16_Witness ==
    \E t \in Threads :
        /\ Answered(t, "create_secret") /\ loc[t].status = 201
        /\ Len(loc[t].data) = 2
        /\ \E i \in 1..Len(fields) : fields[i].value = loc[t].data[2].value

\* the files the backend writes
Files == {masterFile, inputTxt, outputTxt}

\* C17: no file the backend writes ever holds the raw text of a password
\* given to set_master_password, not while a call runs and not after it.
C17_NoRawPasswordInFiles ==
    \A f \in Files : f # NoFile => \A p \in Passwords : f[1] # Text(p)

\* C18: whenever check_exist_master_password() is true, the stored verifier
\* is the hash of the password of a set_master_password call that was
\* answered 201: never empty, never the hash of another password.
C18_ExistsMeansVerifierOfSuccess ==
    check_exist_master_password =>
        \E i \in 1..Len(won) : masterFile = File(HashOf(won[i]))

(***************************************************************************)
(* Claims about ids (checked under Spec).                                  *)
(***************************************************************************)
\* C21: the id the INSERT of create_secret gives a new secret was given to
\* no secret before, deleted or not, and no row of secret_fields refers to it
\* yet: a field row left from a deleted secret is not taken up by a new one.
C21_IdsNeverReused ==
    [][\A t \in Threads :
          pc[t] = "cs_insert" /\ loc'[t].rowid # loc[t].rowid =>
              /\ loc'[t].rowid \notin DOMAIN born
              /\ \A r \in secrets : r.id # loc'[t].rowid
              /\ \A i \in 1..Len(fields) : ~KeyEq(fields[i].secret_id, IntKey(loc'[t].rowid))]_vars

\* a secret is stored whose id is larger than the id of a deleted secret, a
\* field row of which is still in secret_fields
C21_Witness ==
    \E r \in secrets, id \in DOMAIN born :
        /\ id < r.id
        /\ \A x \in secrets : x.id # id
        /\ \E i \in 1..Len(fields) : KeyEq(fields[i].secret_id, IntKey(id))

(***************************************************************************)
(* Claims about rejected requests (checked under SpecApi).                 *)
(***************************************************************************)
\* an element of request.json['data'] that is no object with both label and value
MalformedEntry(e) == e.t # "dict" \/ LabelOf(e) = Missing \/ ValueOf(e) = Missing

\* a create_secret request that is a ValidationError: name, data or password
\* absent or of the wrong type, or an element of data malformed, at any position
Malformed(req) ==
    \/ ~IsStr(req.name) \/ ~IsList(req.data) \/ ~IsStr(req.password)
    \/ \E i \in 1..Len(req.data.es) : MalformedEntry(req.data.es[i])

\* C22: a create_secret request that is a ValidationError never gets to the
\* store: the thread that answers it calls no DatabaseManager method and
\* inserts no row, also when well-formed fields come before the malformed
\* one; when it is answered as malformed, the answer is 400.
C22_ValidationErrorChangesNothing ==
    \A t \in Threads :
        loc[t].handler = "create_secret" /\ Malformed(loc[t].req) =>
            /\ pc[t] = "idle"
            /\ loc[t].op = "none" /\ loc[t].rowid = 0
            /\ loc[t].status \in {400, 403, 500}
            /\ loc[t].verified = "False" => loc[t].status = 400

\* a request whose second element of data is malformed, after a well-formed
\* first, has been answered 400 while the master password is set
C22_Witness ==
    \E t \in Threads :
        /\ Answered(t, "create_secret") /\ loc[t].status = 400
        /\ IsStr(loc[t].req.name) /\ IsList(loc[t].req.data) /\ IsStr(loc[t].req.password)
        /\ Len(loc[t].req.data.es) = 2
        /\ ~MalformedEntry(loc[t].req.data.es[1]) /\ MalformedEntry(loc[t].req.data.es[2])
        /\ loc[t].verified = "False"

(***************************************************************************)
(* Claims about the salts of encrypt_string (checked under SpecCipher).    *)
(***************************************************************************)
\* the salt a blob starts with
SaltOf(blob) == SubSeq(blob, 1, SALT_SIZE)

\* C23: two calls of encrypt_string, with the same or different password and
\* plaintext, never return the same blob: the blob a call returns differs
\* from every blob returned before, and so do its salt and the key derived
\* from it.  (os.urandom is taken to never repeat, see urandom.)
C23_FreshSaltEveryCall ==
    [][\A t, u \in Threads :
          pc[t] = "idle" /\ pc'[t] = "blob" /\ Len(loc[u].blob) >= SALT_SIZE =>
              /\ loc'[t].blob # loc[u].blob
              /\ SaltOf(loc'[t].blob) # SaltOf(loc[u].blob)
              /\ _derive_fernet_key(loc'[t].pw, SaltOf(loc'[t].blob))
                    # _derive_fernet_key(loc[u].pw, SaltOf(loc[u].blob))]_vars

\* both threads hold the blob encrypt_string returned them for the same
\* password and the same plaintext
C23_Witness ==
    /\ \A t \in Threads : pc[t] = "blob" /\ loc[t].altered = "no"
    /\ loc["t1"].pw = loc["t2"].pw /\ loc["t1"].plain = loc["t2"].plain
    /\ loc["t1"].blob # loc["t2"].blob

(***************************************************************************)
(* Claims about the construction of the store (checked under SpecBoot).    *)
(***************************************************************************)
\* thread t's DatabaseManager(...) has returned an instance
Constructed(t) == pc[t] = "idle" /\ loc[t].op = "DatabaseManager" /\ loc[t].ret = RetTrue

\* one object, one __init__, one connection, and every construction that
\* returned has returned that object
OneInstance ==
    /\ singleton.made <= 1 /\ singleton.inits <= 1 /\ singleton.connects <= 1
    /\ \A t \in Threads :
          Constructed(t) =>
              /\ loc[t].inst = 1
              /\ singleton.made = 1 /\ singleton.inits = 1 /\ singleton.connects = 1

\* once __init__ has run, db_name stays what it was given and no other file
\* is made or changed, whatever name a later construction passes
LaterNamesIgnored ==
    singleton.inits >= 1 =>
        /\ singleton'.db_name = singleton.db_name
        /\ \A n \in DbNames : n # singleton.db_name => dbFiles'[n] = dbFiles[n]

\* C24, as amended: any number of DatabaseManager(...) constructions,
\* sequential or concurrent, yields one and the same instance with one
\* connection; __init__ and _connect run exactly once, the table bootstrap
\* runs once when the file was missing at the connect and not at all when it
\* was there, and the db_name of every construction after the first is ignored.
C24_OneInstanceOneConnection ==
    /\ [](/\ OneInstance
          /\ singleton.ddl <= 1
          /\ \A t \in Threads :
                Constructed(t) => (singleton.ddl = 1 <=> singleton.found = "missing"))
    /\ [][LaterNamesIgnored]_vars

\* both threads were returned the instance, one of them after passing another
\* db_name than the first construction's
C24_Witness ==
    /\ \A t \in Threads : Constructed(t) /\ loc[t].inst = 1
    /\ \E t \in Threads : loc[t].db # singleton.db_name

\* C24 as stated: after a construction returned, __init__, _connect and the
\* table bootstrap have each run exactly once.
C24_BootstrapExactlyOnce ==
    \A t \in Threads :
        Constructed(t) =>
            singleton.inits = 1 /\ singleton.connects = 1 /\ singleton.ddl = 1

\* C27: create_tables runs when and only when the database file does not
\* exist as the store connects; a file that exists is opened without any DDL
\* and is left holding what it held.
C27_BootstrapIffFileMissing ==
    /\ singleton.ddl > 0 => singleton.found = "missing"
    /\ singleton.instance # 0 =>
          /\ singleton.found = "missing" =>
                singleton.ddl = 1 /\ dbFiles[singleton.db_name] = "tables"
          /\ singleton.found # "missing" =>
                singleton.ddl = 0 /\ dbFiles[singleton.db_name] = singleton.found
    /\ singleton.failed = 0

\* one construction has bootstrapped a file that was missing, in a process
\* whose other file, with rows, was left alone
C27_Witness ==
    /\ singleton.instance = 1 /\ singleton.found = "missing" /\ singleton.ddl = 1
    /\ \E n \in DbNames : n # singleton.db_name /\ dbFiles[n] = "rows"

(***************************************************************************)
(* Claims about the before_request hook (checked under SpecApi).           *)
(***************************************************************************)
ApiHandlers == {"find_by_name", "create_secret", "get_secret", "delete_secret"}

InHashPassword(t) == pc[t] \in {"hp_write", "hp_system", "hp_read", "hp_rm_in", "hp_rm_out"}

\* thread t's hash_password has read its result (tools.py 71)
HasHash(t) == pc[t] \in {"hp_rm_in", "hp_rm_out", "smp_write"}

\* C26: hash_password(p) returns the hash of p and of no other password, also
\* when a second call runs concurrently; each call completes without error,
\* and once no call is running neither input.txt nor output.txt is left.
C26_HashPasswordIsolated ==
    /\ \A t \in Threads :
          /\ HasHash(t) => loc[t].hash = hash_with_salt_sha256(loc[t].req.password.s)
          /\ loc[t].handler = "set_master_password" => loc[t].ret.kind # "raise"
    /\ (\A t \in Threads : ~InHashPassword(t)) => inputTxt = NoFile /\ outputTxt = NoFile

(***************************************************************************)
(* The client (src/main.py): Connector.delete_secret sends the DELETE      *)
(* request that the backend's delete_secret handler answers.               *)
(***************************************************************************)
\* the backend routes DELETE /delete_secret only (api.py 96); Flask answers a
\* path that no route serves with 404, before any blueprint hook
UnroutedStatus == 404

\* main.py 146-159: what one pass of the loop makes of the response r (0: the
\* request raised RequestException); "next" when the loop goes on
AfterResponse(r) ==
    CASE r = 200 -> "True"
      [] r = 403 -> "WrongMK"
      [] r = 404 -> "SecretNotFound"
      [] r = 500 -> "MKNotFound"
      [] OTHER -> "next"

\* main.py 143-162: the loop over ["/delete_secret", "/delet_secret"], r1 and
\* r2 the responses of the two endpoints; last_exc is a ConnectionError
Connector_delete_secret(r1, r2) ==
    IF AfterResponse(r1) # "next" THEN AfterResponse(r1)
    ELSE IF AfterResponse(r2) # "next" THEN AfterResponse(r2)
    ELSE "ConnectionError"

\* main.py 138-162, once the handler has answered the request to
\* /delete_secret.  The payload has both keys (140); either response may be
\* lost on the way (RequestException)
ConnectorDeleteSecret(t) ==
    /\ Answered(t, "delete_secret")
    /\ loc[t].req.id # Missing /\ loc[t].req.password # Missing
    /\ loc[t].client = "none"
    /\ \E lost1, lost2 \in BOOLEAN :
          LET r1 == IF lost1 THEN 0 ELSE loc[t].status
              r2 == IF lost2 THEN 0 ELSE UnroutedStatus
          IN Goto(t, "idle", [loc[t] EXCEPT !.first = r1,
                                            !.client = Connector_delete_secret(r1, r2)])
    /\ UNCHANGED <<storeVars, fileVars, nops, procVars>>

NextClient ==
    \E t \in Threads :
        \/ set_master_password(t)
        \/ MasterStep(t)
        \/ delete_secret(t)
        \/ ConnectorDeleteSecret(t)

SpecClient == Init /\ [][NextClient]_vars

(***************************************************************************)
(* Claims about the client (checked under SpecClient).                     *)
(***************************************************************************)
\* C28: Connector.delete_secret raises SecretNotFound only if the
\* /delete_secret handler answered 404; when the handler answers another
\* status, or the connection fails, the client never reports SecretNotFound.
C28_SecretNotFoundOnlyOn404 ==
    \A t \in Threads :
        loc[t].client = "SecretNotFound" => loc[t].first = 404 /\ loc[t].status = 404

====
